---- MODULE Spec2Model ----
(***************************************************************************)
(* ccb-lms: the identity, course and enrollment services and the shared    *)
(* ccb-common crate (claims, roles, the AuthenticatedUser extractor).      *)
(* The three services share one relational store and one token format.    *)
(***************************************************************************)
EXTENDS Integers, Sequences, FiniteSets, TLC

\* ------------------------------------------------------------------ bounds
\* Principal ids (UUIDs) that tokens may name.
NumUuids == 2
\* Rows the users table may hold.
MaxUsers == 1
\* Courses ever created (a deleted id is never reused).
MaxCourses == 1
\* update_course_by_id requests suspended between their SELECT and UPDATE.
MaxPending == 1
\* Tokens a client keeps for later requests.
MaxIssued == 1

\* ------------------------------------------------------- program constants
\* jsonwebtoken's Validation::default(): validate_exp, HS256, leeway 60 s.
Leeway == 60
\* Duration::hours(24)
TOKEN_HOURS == 24
SecondsPerHour == 3600

\* ------------------------------------------------------------------- types
UserRole == {"Student", "Instructor", "Admin"}
Services == {"auth", "course", "enrollment"}

Uuids == 1 .. NumUuids
\* Uuid::to_string / Uuid::parse_str: the hyphenated text form of an id.
UuidToString(u) == "00000000-0000-0000-0000-00000000000" \o ToString(u)
NotAUuid == "not-a-uuid"
ParseOk(s) == \E u \in Uuids : UuidToString(u) = s
parse_str(s) == CHOOSE u \in Uuids : UuidToString(u) = s

\* env::var("JWT_SECRET") is Err when the variable is unset.
Unset == "<unset>"
DEFAULT_SECRET == "default_secret"
ConfiguredSecret == "k1"
ForeignSecret == "k2"
Secrets == {ConfiguredSecret, ForeignSecret, DEFAULT_SECRET}

\* Option<String>::None
None == "<none>"

\* ------------------------------------------------------------------ state
VARIABLES
    users,        \* the users table: rows [id, username, password_hash, role]
    courses,      \* the courses table: rows [id, title, description, instructor_id, created_at, updated_at]
    course_seq,   \* ids the courses table has handed out
    enrollments,  \* the enrollments table: rows [user_id, course_id, enrollment_date]
    pending,      \* update_course_by_id calls suspended at their UPDATE, with their locals
    issued,       \* tokens login returned and a client still holds
    now,          \* the clock (unix seconds)
    env,          \* JWT_SECRET of each service's process
    last          \* the request handled last and its response

vars == <<users, courses, course_seq, enrollments, pending, issued, now, env, last>>

\* ------------------------------------------------------------------ tokens
\* A compact JWT: header (alg), payload (the Claims JSON) and an HMAC whose
\* key is the only thing the signature is modelled by.  wf tells whether the
\* text splits into three parts ("garbage" does not) and whether the payload
\* deserialises into Claims ("badclaims" does not).
Claims(sub, role, exp) == [sub |-> sub, role |-> role, exp |-> exp]
NoClaims == [sub |-> "", role |-> "none", exp |-> 0]

Jwt(alg, claims, key, wf) == [alg |-> alg, claims |-> claims, key |-> key, wf |-> wf]
NoToken == Jwt("none", NoClaims, "", "absent")

\* jsonwebtoken::encode(&Header::default(), &claims, &EncodingKey::from_secret(secret))
encode(claims, secret) == Jwt("HS256", claims, secret, "ok")

\* jsonwebtoken::decode::<Claims>(token, &DecodingKey::from_secret(secret),
\* &Validation::default()) at clock reading t: the text must split, the
\* header's alg must be HS256, the signature must verify, the payload must
\* deserialise, and exp is rejected when exp < t - leeway.
decode_err(token, secret, t) ==
    IF token.wf = "garbage" THEN "InvalidToken"
    ELSE IF token.alg # "HS256" THEN "InvalidAlgorithm"
    ELSE IF token.key # secret THEN "InvalidSignature"
    ELSE IF token.wf # "ok" THEN "Json"
    ELSE IF token.claims.exp < t - Leeway THEN "ExpiredSignature"
    ELSE "none"

decode(token, secret, t) ==
    IF decode_err(token, secret, t) = "none"
    THEN [ok |-> TRUE, claims |-> token.claims]
    ELSE [ok |-> FALSE, claims |-> NoClaims]

\* --------------------------------------------------------- request headers
\* The Authorization header: absent, or a value whose first seven bytes are
\* prefix and whose remainder is token; ascii is FALSE when to_str() fails.
Header(prefix, token) == [present |-> TRUE, ascii |-> TRUE, prefix |-> prefix, token |-> token]
NoHeader == [present |-> FALSE, ascii |-> TRUE, prefix |-> "", token |-> NoToken]
OpaqueHeader == [present |-> TRUE, ascii |-> FALSE, prefix |-> "Bearer ", token |-> NoToken]
Bearer(token) == Header("Bearer ", token)

\* ------------------------------------------------------ AuthenticatedUser
AuthenticatedUser(id, role) == [id |-> id, role |-> role]
NoUser == AuthenticatedUser(0, "none")
AuthOk(user) == [ok |-> TRUE, user |-> user, status |-> 200, body |-> ""]
\* actix_web::error::ErrorUnauthorized("Invalid or missing token")
ErrorUnauthorized == [ok |-> FALSE, user |-> NoUser, status |-> 401, body |-> "Invalid or missing token"]

\* env::var("JWT_SECRET").unwrap_or_else(|_| "default_secret".to_string())
unwrap_or_default(jwt_env) == IF jwt_env = Unset THEN DEFAULT_SECRET ELSE jwt_env

\* from_request telling the caller that the token has expired.
from_request_telling(auth_header, jwt_env, t) ==
    IF auth_header.present /\ auth_header.ascii /\ auth_header.prefix = "Bearer "
    THEN LET secret == unwrap_or_default(jwt_env)
             token_data == decode(auth_header.token, secret, t)
         IN  IF token_data.ok /\ ParseOk(token_data.claims.sub)
             THEN AuthOk(AuthenticatedUser(parse_str(token_data.claims.sub), token_data.claims.role))
             ELSE IF decode_err(auth_header.token, secret, t) = "ExpiredSignature"
             THEN [ErrorUnauthorized EXCEPT !.body = "Token expired"]
             ELSE ErrorUnauthorized
    ELSE ErrorUnauthorized

\* from_request looking the principal's role up in the users table.
from_request_refetching(auth_header, jwt_env, t) ==
    IF auth_header.present /\ auth_header.ascii /\ auth_header.prefix = "Bearer "
    THEN LET token_data == decode(auth_header.token, unwrap_or_default(jwt_env), t)
         IN  IF token_data.ok /\ ParseOk(token_data.claims.sub)
             THEN LET id == parse_str(token_data.claims.sub)
                      rows == {u \in users : u.id = id}
                  IN  IF rows = {}
                      THEN AuthOk(AuthenticatedUser(id, token_data.claims.role))
                      ELSE AuthOk(AuthenticatedUser(id, (CHOOSE u \in rows : TRUE).role))
             ELSE ErrorUnauthorized
    ELSE ErrorUnauthorized

\* <AuthenticatedUser as FromRequest>::from_request: auth_header is the
\* request's Authorization header, jwt_env the process's JWT_SECRET, t the
\* clock reading decode takes.
from_request(auth_header, jwt_env, t) ==
    IF auth_header.present
    THEN IF auth_header.ascii
         THEN IF auth_header.prefix = "Bearer "
              THEN LET token_data == decode(auth_header.token, unwrap_or_default(jwt_env), t)
                   IN  IF token_data.ok
                       THEN IF ParseOk(token_data.claims.sub)
                            THEN AuthOk(AuthenticatedUser(parse_str(token_data.claims.sub),
                                                          token_data.claims.role))
                            ELSE ErrorUnauthorized
                       ELSE ErrorUnauthorized
              ELSE ErrorUnauthorized
         ELSE ErrorUnauthorized
    ELSE ErrorUnauthorized

\* ------------------------------------------------------------------- rows
NoUserRow == [id |-> 0, username |-> "", password_hash |-> "", role |-> "none"]
NoCourse == [id |-> 0, title |-> "", description |-> None, instructor_id |-> 0,
             created_at |-> 0, updated_at |-> 0]

\* What a handler was called with; the fields an operation does not take stay blank.
NoArgs == [username |-> "", password |-> "", course_id |-> 0, title |-> None, description |-> None]

\* op: the handler; hdr: the Authorization header; auth: what from_request
\* returned (AuthOk(NoUser) for the handlers that take no AuthenticatedUser);
\* ran: the handler body was entered; status, body, token: the response
\* (status 0: none was written); user_row, course_row: the row the handler's
\* query found or wrote; at: the clock reading.
Last(op, svc, hdr, auth, args, ran, status, body) ==
    [op |-> op, svc |-> svc, hdr |-> hdr, auth |-> auth, args |-> args, ran |-> ran,
     status |-> status, body |-> body, token |-> NoToken,
     user_row |-> NoUserRow, course_row |-> NoCourse, at |-> now]

\* The extractor's rejection is the whole response.
Rejected(op, svc, hdr, auth, args) == Last(op, svc, hdr, auth, args, FALSE, auth.status, auth.body)

\* bcrypt::hash(password, DEFAULT_COST) and bcrypt::verify(password, hash); the salt is left out.
hash(password) == "$2b$12$" \o password
verify(password, password_hash) == password_hash = hash(password)

\* The role column's default.
DEFAULT_ROLE == "Student"

UserByName(username) == {u \in users : u.username = username}
UserById(id) == {u \in users : u.id = id}
CourseById(id) == {c \in courses : c.id = id}
TheRow(rows) == CHOOSE r \in rows : TRUE

Instants == {Leeway + 1,
             Leeway + 1 + TOKEN_HOURS * SecondsPerHour,
             Leeway + 1 + TOKEN_HOURS * SecondsPerHour + Leeway,
             Leeway + 1 + TOKEN_HOURS * SecondsPerHour + Leeway + 1}

EnvConfigs == {[s \in Services |-> ConfiguredSecret], [s \in Services |-> Unset]}

Init ==
    /\ users = {}
    /\ courses = {}
    /\ course_seq = 0
    /\ enrollments = {}
    /\ pending = {}
    /\ issued = {}
    /\ now = Leeway + 1
    /\ env \in EnvConfigs
    /\ last = Last("start", "none", NoHeader, AuthOk(NoUser), NoArgs, FALSE, 0, "")

\* ------------------------------------------------------------ auth-service
\* The users table's unique constraint on username: an INSERT of this
\* username would violate it.
users_username_key(username) == \E u \in users : u.username = username

\* A register without the unique-violation arm: the error is an internal one.
register_conflict_internal == [status |-> 500, body |-> "Failed to create user"]

\* What register answers when the INSERT reports a unique violation.
register_conflict == [status |-> 409, body |-> "Username already exists"]

\* register: hash, then one INSERT.  The hash reads no state, so concurrent
\* requests meet at their INSERT statements, one step each.
register(username, password) ==
    LET password_hash == hash(password)
        args == [NoArgs EXCEPT !.username = username, !.password = password]
        new_user == [id |-> Cardinality(users) + 1, username |-> username,
                     password_hash |-> password_hash, role |-> DEFAULT_ROLE]
    IN  IF users_username_key(username)
        THEN /\ last' = Last("register", "auth", NoHeader, AuthOk(NoUser), args, TRUE,
                             register_conflict.status, register_conflict.body)
             /\ UNCHANGED <<users, courses, course_seq, enrollments, pending, issued, now, env>>
        ELSE /\ Cardinality(users) < MaxUsers
             /\ users' = users \cup {new_user}
             /\ last' = [Last("register", "auth", NoHeader, AuthOk(NoUser), args, TRUE, 201, "json")
                            EXCEPT !.user_row = new_user]
             /\ UNCHANGED <<courses, course_seq, enrollments, pending, issued, now, env>>

\* An expiry one hour ahead.
expiration_one_hour(t) == t + SecondsPerHour

\* Utc::now().checked_add_signed(Duration::hours(24)).timestamp()
expiration(t) == t + TOKEN_HOURS * SecondsPerHour

\* The Claims login builds for the row it found.
login_claims(user, t) == Claims(UuidToString(user.id), user.role, expiration(t))

\* A login that tells an unknown username apart.
login_no_user_found == [status |-> 404, body |-> "User not found"]

\* What login answers when no row has the username.
login_no_user == [status |-> 401, body |-> "Invalid username or password"]
\* What login answers when verify() returns false.
login_bad_password == [status |-> 401, body |-> "Invalid username or password"]

login(username, password) ==
    LET args == [NoArgs EXCEPT !.username = username, !.password = password]
        L(status, body) == Last("login", "auth", NoHeader, AuthOk(NoUser), args, TRUE, status, body)
    IN  IF UserByName(username) = {}
        THEN /\ last' = L(login_no_user.status, login_no_user.body)
             /\ UNCHANGED <<users, courses, course_seq, enrollments, pending, issued, now, env>>
        ELSE LET user == TheRow(UserByName(username))
             IN  IF ~verify(password, user.password_hash)
                 THEN /\ last' = [L(login_bad_password.status, login_bad_password.body)
                                     EXCEPT !.user_row = user]
                      /\ UNCHANGED <<users, courses, course_seq, enrollments, pending, issued, now, env>>
                 ELSE IF env["auth"] = Unset
                 THEN \* env::var("JWT_SECRET").expect(..) panics: no response is written
                      /\ last' = [L(0, "panicked: JWT_SECRET must be set") EXCEPT !.user_row = user]
                      /\ UNCHANGED <<users, courses, course_seq, enrollments, pending, issued, now, env>>
                 ELSE LET token == encode(login_claims(user, now), env["auth"])
                      IN  /\ last' = [L(200, "json") EXCEPT !.user_row = user, !.token = token]
                          /\ issued' = IF Cardinality(issued) < MaxIssued
                                       THEN issued \cup {token} ELSE issued
                          /\ UNCHANGED <<users, courses, course_seq, enrollments, pending, now, env>>

get_me(hdr) ==
    LET auth_user == from_request(hdr, env["auth"], now)
    IN  /\ IF ~auth_user.ok
           THEN last' = Rejected("get_me", "auth", hdr, auth_user, NoArgs)
           ELSE IF UserById(auth_user.user.id) # {}
           THEN last' = [Last("get_me", "auth", hdr, auth_user, NoArgs, TRUE, 200, "json")
                            EXCEPT !.user_row = TheRow(UserById(auth_user.user.id))]
           ELSE last' = Last("get_me", "auth", hdr, auth_user, NoArgs, TRUE, 404, "User not found")
        /\ UNCHANGED <<users, courses, course_seq, enrollments, pending, issued, now, env>>

\* A role-management operation on the store (not part of these services).
ChangeRole(id, role) ==
    /\ \E u \in users : u.id = id /\ u.role # role
    /\ users' = {IF u.id = id THEN [u EXCEPT !.role = role] ELSE u : u \in users}
    /\ last' = Last("change_role", "store", NoHeader, AuthOk(NoUser), NoArgs, FALSE, 0, "")
    /\ UNCHANGED <<courses, course_seq, enrollments, pending, issued, now, env>>

\* The clock moves on to a later instant.
Tick(t) ==
    /\ t > now
    /\ now' = t
    /\ last' = [Last("tick", "none", NoHeader, AuthOk(NoUser), NoArgs, FALSE, 0, "") EXCEPT !.at = t]
    /\ UNCHANGED <<users, courses, course_seq, enrollments, pending, issued, env>>

\* ---------------------------------------------------------- course-service
\* A role check that lets every role create.
create_allowed_any(auth_user) == auth_user.role \in UserRole

\* create_course's role check.
create_allowed(auth_user) == ~(auth_user.role # "Instructor" /\ auth_user.role # "Admin")

create_course(hdr, title, description) ==
    LET auth_user == from_request(hdr, env["course"], now)
        args == [NoArgs EXCEPT !.title = title, !.description = description]
        L(status, body) == Last("create_course", "course", hdr, auth_user, args, TRUE, status, body)
        new_course == [id |-> course_seq + 1, title |-> title, description |-> description,
                       instructor_id |-> auth_user.user.id, created_at |-> now, updated_at |-> now]
    IN  IF ~auth_user.ok
        THEN /\ last' = Rejected("create_course", "course", hdr, auth_user, args)
             /\ UNCHANGED <<users, courses, course_seq, enrollments, pending, issued, now, env>>
        ELSE IF ~create_allowed(auth_user.user)
        THEN /\ last' = L(403, "Only instructors or admins can create courses")
             /\ UNCHANGED <<users, courses, course_seq, enrollments, pending, issued, now, env>>
        ELSE /\ course_seq < MaxCourses
             /\ courses' = courses \cup {new_course}
             /\ course_seq' = course_seq + 1
             /\ last' = [L(201, "json") EXCEPT !.course_row = new_course]
             /\ UNCHANGED <<users, enrollments, pending, issued, now, env>>

\* A permission check without the Admin bypass.
update_denied_owner_only(course, auth_user) == course.instructor_id # auth_user.id

\* update_course_by_id's permission check on the course it loaded.
update_denied(course, auth_user) ==
    course.instructor_id # auth_user.id /\ auth_user.role # "Admin"

\* update_data.title.clone().unwrap_or(course.title)
new_title(title, course) == IF title = None THEN course.title ELSE title
\* update_data.description.clone()
new_description(description, course) == description

\* update_course_by_id up to the await of its UPDATE: the extractor, the
\* SELECT, the permission check and the new values.
update_course_by_id(hdr, course_id, title, description) ==
    LET auth_user == from_request(hdr, env["course"], now)
        args == [NoArgs EXCEPT !.course_id = course_id, !.title = title, !.description = description]
        L(status, body) == Last("update_course_by_id", "course", hdr, auth_user, args, TRUE, status, body)
    IN  IF ~auth_user.ok
        THEN /\ last' = Rejected("update_course_by_id", "course", hdr, auth_user, args)
             /\ UNCHANGED <<users, courses, course_seq, enrollments, pending, issued, now, env>>
        ELSE IF CourseById(course_id) = {}
        THEN /\ last' = L(404, "Course not found")
             /\ UNCHANGED <<users, courses, course_seq, enrollments, pending, issued, now, env>>
        ELSE LET course == TheRow(CourseById(course_id))
                 call == [course_id |-> course_id, title |-> new_title(title, course),
                          description |-> new_description(description, course)]
             IN  IF update_denied(course, auth_user.user)
                 THEN /\ last' = [L(403, "You are not authorized to update this course")
                                     EXCEPT !.course_row = course]
                      /\ UNCHANGED <<users, courses, course_seq, enrollments, pending, issued, now, env>>
                 ELSE /\ call \notin pending
                      /\ Cardinality(pending) < MaxPending
                      /\ pending' = pending \cup {call}
                      /\ last' = [L(0, "") EXCEPT !.course_row = course]
                      /\ UNCHANGED <<users, courses, course_seq, enrollments, issued, now, env>>

\* The rest of update_course_by_id: the UPDATE ... WHERE id = $3 RETURNING
\* and the response.  call holds the locals the statement binds (title,
\* description, course_id); fetch_one is Err(RowNotFound) when no row is left.
update_course_by_id_update(call) ==
    LET args == [NoArgs EXCEPT !.course_id = call.course_id, !.title = call.title,
                               !.description = call.description]
        L(status, body) == Last("update_course_by_id_update", "course", NoHeader, AuthOk(NoUser),
                                args, TRUE, status, body)
    IN  /\ call \in pending
        /\ pending' = pending \ {call}
        /\ IF CourseById(call.course_id) = {}
           THEN /\ last' = L(500, "Failed to update course")
                /\ UNCHANGED <<courses>>
           ELSE LET old == TheRow(CourseById(call.course_id))
                    updated == [old EXCEPT !.title = call.title, !.description = call.description,
                                           !.updated_at = now]
                IN  /\ courses' = (courses \ {old}) \cup {updated}
                    /\ last' = [L(200, "json") EXCEPT !.course_row = old]
        /\ UNCHANGED <<users, course_seq, enrollments, issued, now, env>>

\* A DELETE that matches on the id alone for every role.
delete_matches_any(auth_user, course_id) == {c \in courses : c.id = course_id}

\* The rows delete_course_by_id's DELETE statement matches.
delete_matches(auth_user, course_id) ==
    IF auth_user.role = "Admin"
    THEN {c \in courses : c.id = course_id}
    ELSE {c \in courses : c.id = course_id /\ c.instructor_id = auth_user.id}

delete_course_by_id(hdr, course_id) ==
    LET auth_user == from_request(hdr, env["course"], now)
        args == [NoArgs EXCEPT !.course_id = course_id]
        L(status, body) == Last("delete_course_by_id", "course", hdr, auth_user, args, TRUE, status, body)
        found == IF CourseById(course_id) = {} THEN NoCourse ELSE TheRow(CourseById(course_id))
    IN  IF ~auth_user.ok
        THEN /\ last' = Rejected("delete_course_by_id", "course", hdr, auth_user, args)
             /\ UNCHANGED <<users, courses, course_seq, enrollments, pending, issued, now, env>>
        ELSE LET rows == delete_matches(auth_user.user, course_id)
             IN  /\ courses' = courses \ rows
                 /\ last' = IF Cardinality(rows) = 1
                            THEN [L(204, "") EXCEPT !.course_row = found]
                            ELSE [L(404, "Course not found or you are not the owner")
                                     EXCEPT !.course_row = found]
                 /\ UNCHANGED <<users, course_seq, enrollments, pending, issued, now, env>>

\* ------------------------------------------------------ enrollment-service
\* The enrollments table's unique constraint on (user_id, course_id): an
\* INSERT of this pair would violate it.
enrollments_pkey(user_id, course_id) ==
    \E e \in enrollments : e.user_id = user_id /\ e.course_id = course_id

\* An enroll_in_course without the unique-violation arm.
enroll_conflict_internal == [status |-> 500, body |-> "Failed to enroll in course"]

\* What enroll_in_course answers when the INSERT reports a unique violation.
enroll_conflict == [status |-> 409, body |-> "User is already enrolled in this course"]

\* enroll_in_course: the extractor and one INSERT.
enroll_in_course(hdr, course_id) ==
    LET auth_user == from_request(hdr, env["enrollment"], now)
        args == [NoArgs EXCEPT !.course_id = course_id]
        L(status, body) == Last("enroll_in_course", "enrollment", hdr, auth_user, args, TRUE, status, body)
        user_id == auth_user.user.id
    IN  IF ~auth_user.ok
        THEN /\ last' = Rejected("enroll_in_course", "enrollment", hdr, auth_user, args)
             /\ UNCHANGED <<users, courses, course_seq, enrollments, pending, issued, now, env>>
        ELSE IF enrollments_pkey(user_id, course_id)
        THEN /\ last' = L(enroll_conflict.status, enroll_conflict.body)
             /\ UNCHANGED <<users, courses, course_seq, enrollments, pending, issued, now, env>>
        ELSE /\ enrollments' = enrollments \cup
                    {[user_id |-> user_id, course_id |-> course_id, enrollment_date |-> now]}
             /\ last' = L(201, "json")
             /\ UNCHANGED <<users, courses, course_seq, pending, issued, now, env>>

get_my_enrollments(hdr) ==
    LET auth_user == from_request(hdr, env["enrollment"], now)
    IN  /\ IF ~auth_user.ok
           THEN last' = Rejected("get_my_enrollments", "enrollment", hdr, auth_user, NoArgs)
           ELSE last' = Last("get_my_enrollments", "enrollment", hdr, auth_user, NoArgs, TRUE, 200, "json")
        /\ UNCHANGED <<users, courses, course_seq, enrollments, pending, issued, now, env>>

\* ---------------------------------------------------------------- requests
CourseIds == 1 .. MaxCourses

\* Expiry times around the clock reading t.
ExpChoices(t) == {t - Leeway - 1, t - Leeway, t, t + 1}

\* Tokens whose text and payload are well formed.
SignedTokens(subs, roles, exps, keys) ==
    {encode(Claims(sub, role, exp), key) : sub \in subs, role \in roles, exp \in exps, key \in keys}

\* Tokens decode cannot read: text that is no JWT, a payload that is no
\* Claims, and a header naming another algorithm, each with a good key.
UnreadableTokens(t) ==
    {Jwt("HS256", NoClaims, key, "garbage") : key \in {ConfiguredSecret}} \cup
    {Jwt("HS256", Claims(UuidToString(1), "Admin", t + 1), key, "badclaims") : key \in {ConfiguredSecret, DEFAULT_SECRET}} \cup
    {Jwt("HS384", Claims(UuidToString(1), "Admin", t + 1), key, "ok") : key \in {ConfiguredSecret, DEFAULT_SECRET}}

\* Every kind of Authorization header, for one principal.
AnyHeaders(t) ==
    {NoHeader, OpaqueHeader} \cup
    {Header(prefix, encode(Claims(UuidToString(1), "Admin", t + 1), key)) :
        prefix \in {"Basic ", "bearer "}, key \in {ConfiguredSecret, DEFAULT_SECRET}} \cup
    {Bearer(token) : token \in UnreadableTokens(t)} \cup
    {Bearer(token) : token \in SignedTokens({UuidToString(1)}, {"Admin"}, ExpChoices(t), Secrets)} \cup
    {Bearer(token) : token \in SignedTokens({NotAUuid}, {"Admin"}, {t + 1}, Secrets)}

\* Headers of clients that hold a token signed with the configured secret.
GoodHeaders(t) ==
    {Bearer(token) : token \in SignedTokens({UuidToString(u) : u \in Uuids}, UserRole,
                                            {t + 1}, {ConfiguredSecret})}

\* Headers of clients that present a token login gave them, or none.
IssuedHeaders == {NoHeader} \cup {Bearer(token) : token \in issued}

\* ---------------------------------------------------------- specifications
\* Every protected handler of the three services under every kind of header.
Next ==
    \/ \E hdr \in AnyHeaders(now) :
        \/ get_me(hdr)
        \/ create_course(hdr, "t1", None)
        \/ update_course_by_id(hdr, 1, None, None)
        \/ delete_course_by_id(hdr, 1)
        \/ enroll_in_course(hdr, 1)
        \/ get_my_enrollments(hdr)
    \/ \E call \in pending : update_course_by_id_update(call)

Spec == Init /\ [][Next]_vars

\* The course service with its secret configured and clients holding good tokens.
InitConfigured == Init /\ env = [s \in Services |-> ConfiguredSecret]

NextCourse ==
    \/ \E hdr \in GoodHeaders(now) :
        \/ create_course(hdr, "t1", None)
        \/ \E course_id \in CourseIds, title \in {None, "t2"} :
               update_course_by_id(hdr, course_id, title, None)
        \/ \E course_id \in CourseIds : delete_course_by_id(hdr, course_id)
    \/ \E call \in pending : update_course_by_id_update(call)

SpecCourse == InitConfigured /\ [][NextCourse]_vars

\* The identity service, the store's role management, the clock, and clients
\* that use the tokens login gave them.
NextAuth ==
    \/ \E username \in {"alice", "bob"}, password \in {"pw1"} : register(username, password)
    \/ \E username \in {"alice", "bob"}, password \in {"pw1", "pw2"} : login(username, password)
    \/ \E id \in 1 .. MaxUsers, role \in UserRole : ChangeRole(id, role)
    \/ \E t \in Instants : Tick(t)
    \/ \E hdr \in IssuedHeaders :
        \/ get_me(hdr)
        \/ delete_course_by_id(hdr, 1)
        \/ get_my_enrollments(hdr)

SpecAuth == Init /\ [][NextAuth]_vars

\* The identity service under registrations that repeat usernames with other
\* passwords, and the store's role management.
NextRegister ==
    \/ \E username \in {"alice", "bob"}, password \in {"pw1", "pw2"} : register(username, password)
    \/ \E username \in {"alice", "bob"}, password \in {"pw1", "pw2"} : login(username, password)
    \/ \E id \in 1 .. MaxUsers, role \in UserRole : ChangeRole(id, role)
    \/ \E hdr \in IssuedHeaders : get_me(hdr)

SpecRegister == InitConfigured /\ [][NextRegister]_vars

\* Two clock readings for enrollment dates to differ by.
EnrollInstants == {Leeway + 1, Leeway + 1 + TOKEN_HOURS * SecondsPerHour}

\* The enrollment service with its secret configured, clients holding good
\* tokens, and the clock.
NextEnroll ==
    \/ \E hdr \in GoodHeaders(now) :
        \/ \E course_id \in CourseIds : enroll_in_course(hdr, course_id)
        \/ get_my_enrollments(hdr)
    \/ \E t \in EnrollInstants : Tick(t)

SpecEnroll == InitConfigured /\ [][NextEnroll]_vars

\* The course service's create and update, with and without each optional
\* field of UpdateCourse, on courses that have a description.
NextFrame ==
    \/ \E hdr \in GoodHeaders(now) :
        \/ create_course(hdr, "t1", "d1")
        \/ \E course_id \in CourseIds, title \in {None, "t2"}, description \in {None, "d2"} :
               update_course_by_id(hdr, course_id, title, description)
    \/ \E call \in pending : update_course_by_id_update(call)

SpecFrame == InitConfigured /\ [][NextFrame]_vars

\* ------------------------------------------------------------------ claims
\* The handlers that take an AuthenticatedUser (entered at their first statement).
ProtectedOps == {"get_me", "create_course", "update_course_by_id", "delete_course_by_id",
                 "enroll_in_course", "get_my_enrollments"}

\* The secret the service that handled the last request verifies with.
VerifyingSecret == unwrap_or_default(env[last.svc])

\* The last request carried "Bearer <token>" with a readable HS256 token.
CarriedBearerToken ==
    /\ last.hdr.present /\ last.hdr.ascii /\ last.hdr.prefix = "Bearer "
    /\ last.hdr.token.wf = "ok" /\ last.hdr.token.alg = "HS256"

\* C1: the body of a handler that takes AuthenticatedUser executes only if the
\* request carried "Bearer <token>" whose signature verifies against the
\* verifying service's secret, whose exp is still in the future and whose sub
\* parses as a UUID.
C1_HandlerOnlyWithValidCredential ==
    (last.op \in ProtectedOps /\ last.ran) =>
        /\ CarriedBearerToken
        /\ last.hdr.token.key = VerifyingSecret
        /\ last.hdr.token.claims.exp > last.at
        /\ ParseOk(last.hdr.token.claims.sub)

\* The ways the extractor can fail on the last request's header.
NoAuthorizationHeader == ~last.hdr.present \/ ~last.hdr.ascii
NoBearerPrefix == last.hdr.present /\ last.hdr.ascii /\ last.hdr.prefix # "Bearer "
DecodeFails ==
    /\ last.hdr.present /\ last.hdr.ascii /\ last.hdr.prefix = "Bearer "
    /\ decode_err(last.hdr.token, VerifyingSecret, last.at) # "none"
SubIsNoUuid ==
    /\ last.hdr.present /\ last.hdr.ascii /\ last.hdr.prefix = "Bearer "
    /\ decode_err(last.hdr.token, VerifyingSecret, last.at) = "none"
    /\ ~ParseOk(last.hdr.token.claims.sub)
ExtractorFails == NoAuthorizationHeader \/ NoBearerPrefix \/ DecodeFails \/ SubIsNoUuid

\* C2: every way the extractor can fail gives the same 401 response with the
\* same body, the handler is not run, and the step changes no stored state.
C2_FailuresAreOneUnauthorized ==
    /\ [](last.op \in ProtectedOps /\ ExtractorFails =>
            /\ last.status = 401
            /\ last.body = "Invalid or missing token"
            /\ ~last.ran)
    /\ [][(last'.op \in ProtectedOps /\ last'.status = 401) =>
            UNCHANGED <<users, courses, course_seq, enrollments, pending>>]_vars

\* C2 witness: a request with an expired token, a well-signed one, was turned
\* away with the 401 and the tables are as they were after a course was created.
C2_Witness ==
    /\ last.op = "delete_course_by_id"
    /\ DecodeFails
    /\ decode_err(last.hdr.token, VerifyingSecret, last.at) = "ExpiredSignature"
    /\ last.status = 401
    /\ courses # {}

\* C3: a token whose exp is at or before the verification instant is rejected
\* (401), whether or not its signature is valid.
C3_ExpiredIsRejected ==
    (last.op \in ProtectedOps /\ CarriedBearerToken /\ last.hdr.token.claims.exp <= last.at) =>
        (last.status = 401 /\ ~last.ran)

\* C4: with JWT_SECRET absent, login issues no token and the extractor admits
\* no request.
C4_NoSecretNoService ==
    (last.op \in ProtectedOps \cup {"login"} /\ env[last.svc] = Unset) =>
        /\ last.token = NoToken
        /\ last.op \in ProtectedOps => ~last.ran

\* The principal the extractor bound for the last request.
Principal == last.auth.user

\* The last request was an authenticated call of handler op.
Authenticated(op) == last.op = op /\ last.auth.ok /\ last.ran

\* The UPDATE the last update_course_by_id request would bind.
UpdateCall(course) ==
    [course_id |-> last.args.course_id,
     title |-> IF last.args.title = None THEN course.title ELSE last.args.title,
     description |-> last.args.description]

\* C5: update_course_by_id answers Not Found and changes nothing when the
\* course does not exist; otherwise it goes on to its UPDATE iff the course's
\* instructor_id is the principal's id or the principal is Admin, and in every
\* other case answers Forbidden and leaves the course unchanged.  The UPDATE
\* writes the row of that id when one is there.
C5_UpdateGate ==
    /\ [](Authenticated("update_course_by_id") =>
            IF CourseById(last.args.course_id) = {}
            THEN last.status = 404 /\ last.body = "Course not found"
            ELSE LET course == TheRow(CourseById(last.args.course_id))
                     permitted == course.instructor_id = Principal.id \/ Principal.role = "Admin"
                 IN  /\ permitted <=> (last.status = 0 /\ UpdateCall(course) \in pending)
                     /\ ~permitted <=> last.status = 403)
    /\ [][(last'.op = "update_course_by_id" /\ last'.status \in {403, 404}) =>
            UNCHANGED <<courses, pending>>]_vars
    /\ [][last'.op = "update_course_by_id" => (courses' = courses /\ pending \subseteq pending')]_vars
    /\ [][(last'.op = "update_course_by_id_update" /\ CourseById(last'.args.course_id) # {}) =>
            LET old == TheRow(CourseById(last'.args.course_id))
            IN  /\ last'.status = 200
                /\ courses' = (courses \ {old}) \cup
                      {[old EXCEPT !.title = last'.args.title,
                                   !.description = last'.args.description,
                                   !.updated_at = now]}]_vars

\* C5 witness: an Admin who does not own the course was let through to the UPDATE.
C5_Witness ==
    /\ Authenticated("update_course_by_id")
    /\ last.status = 0
    /\ Principal.role = "Admin"
    /\ last.course_row.instructor_id # Principal.id
    /\ last.course_row.id = last.args.course_id
    /\ pending # {}

\* C6: delete_course_by_id on an existing course owned by A: a principal other
\* than A with role Student or Instructor gets 403; an Admin gets 204; A gets
\* 204 whatever the role; 404 is returned only when the course is absent.
C6_DeleteGate ==
    Authenticated("delete_course_by_id") =>
        IF last.course_row = NoCourse
        THEN last.status = 404
        ELSE IF last.course_row.instructor_id = Principal.id \/ Principal.role = "Admin"
        THEN last.status = 204
        ELSE last.status = 403

\* C7: create_course inserts a course iff the principal's role is Instructor
\* or Admin; for Student it answers Forbidden and inserts nothing.
C7_CreateGate ==
    /\ [](Authenticated("create_course") =>
            IF Principal.role \in {"Instructor", "Admin"}
            THEN /\ last.status = 201
                 /\ last.course_row \in courses
                 /\ last.course_row.instructor_id = Principal.id
                 /\ last.course_row.title = last.args.title
            ELSE /\ last.status = 403
                 /\ Principal.role = "Student")
    /\ [][last'.op = "create_course" =>
            IF last'.auth.ok /\ last'.auth.user.role \in {"Instructor", "Admin"}
            THEN /\ last'.course_row \notin courses
                 /\ courses' = courses \cup {last'.course_row}
            ELSE UNCHANGED <<courses, course_seq>>]_vars

\* C7 witness: a Student was refused while a course created by an Instructor exists.
C7_Witness ==
    /\ Authenticated("create_course")
    /\ Principal.role = "Student"
    /\ last.status = 403
    /\ \E c \in courses : c.instructor_id # Principal.id

\* The users row with the last login's username, if any.
LoginRows == UserByName(last.args.username)

\* C8: a login with an existing username and a wrong password and a login
\* with a username that does not exist get the same response, 401 "Invalid
\* username or password", and no token.
C8_LoginFailuresAlike ==
    (last.op = "login" /\ (LoginRows = {} \/ \A u \in LoginRows : u.password_hash # hash(last.args.password))) =>
        /\ last.status = 401
        /\ last.body = "Invalid username or password"
        /\ last.token = NoToken

\* C8 witness: the username exists, the password is wrong, and the answer is
\* the one an unknown username gets.
C8_Witness ==
    /\ last.op = "login"
    /\ LoginRows # {}
    /\ \A u \in LoginRows : u.password_hash # hash(last.args.password)
    /\ last.status = 401
    /\ \E other \in {"alice", "bob"} : UserByName(other) = {}

\* C9: login returns a token only when the username exists and the password
\* verifies against the stored hash, and the token's claims are sub = the
\* row's id as a string, role = the row's stored role, exp = the time of login
\* plus 24 hours.
C9_IssuedClaims ==
    (last.op = "login" /\ (last.token # NoToken \/ last.status = 200)) =>
        /\ last.status = 200
        /\ \E u \in users :
            /\ u.username = last.args.username
            /\ u.password_hash = hash(last.args.password)
            /\ last.token.claims.sub = UuidToString(u.id)
            /\ ParseOk(last.token.claims.sub) /\ parse_str(last.token.claims.sub) = u.id
            /\ last.token.claims.role = u.role
            /\ last.token.claims.exp = last.at + 24 * 60 * 60
        /\ last.token.key = env["auth"]
        /\ last.token.alg = "HS256"

\* C9 witness: a token was issued to a principal whose role is no longer the default.
C9_Witness ==
    /\ last.op = "login"
    /\ last.status = 200
    /\ last.token.claims.role = "Admin"
    /\ last.at > Leeway + 1

\* C10: a token login issued is accepted, in every service that shares the
\* secret, with the id and role it was issued with until it expires, whatever
\* the principal's stored role has become.
C10_TokenRoleIsStale ==
    (/\ last.op \in ProtectedOps
     /\ last.hdr.present
     /\ last.hdr.token \in issued
     /\ last.hdr.token.key = env[last.svc]
     /\ last.hdr.token.claims.exp > last.at) =>
        /\ last.auth.ok
        /\ last.ran
        /\ last.auth.user.role = last.hdr.token.claims.role
        /\ UuidToString(last.auth.user.id) = last.hdr.token.claims.sub

\* C10 witness: the course service accepted a token as Student although the
\* stored role of its principal is Admin by now.
C10_Witness ==
    /\ last.op = "delete_course_by_id"
    /\ last.ran
    /\ last.auth.user.role = "Student"
    /\ \E u \in users : u.id = last.auth.user.id /\ u.role = "Admin"

\* C11: register with a username that already exists answers 409 and leaves
\* the existing row and the number of rows as they were; whatever the order
\* in which registrations of one username reach the store, at most one
\* creates a row and every other one gets 409.
C11_RegisterConflict ==
    /\ [](\A u, v \in users : u.username = v.username => u = v)
    /\ [][last'.op = "register" =>
            IF \E u \in users : u.username = last'.args.username
            THEN /\ last'.status = 409
                 /\ last'.body = "Username already exists"
                 /\ users' = users
            ELSE /\ last'.status = 201
                 /\ users \subseteq users'
                 /\ Cardinality(users') = Cardinality(users) + 1
                 /\ \E u \in users' \ users :
                        /\ u.username = last'.args.username
                        /\ u.password_hash = hash(last'.args.password)
                        /\ u.role = "Student"]_vars

\* C11 witness: a registration that repeats a username with another password
\* got 409, and the row, whose role has been changed since, is as it was.
C11_Witness ==
    /\ last.op = "register"
    /\ last.status = 409
    /\ \E u \in users :
        /\ u.username = last.args.username
        /\ u.password_hash # hash(last.args.password)
        /\ u.role = "Admin"
    /\ Cardinality(users) = 1

\* The enrollments of one principal in one course.
EnrollmentsOf(rows, user_id, course_id) ==
    {e \in rows : e.user_id = user_id /\ e.course_id = course_id}

\* C12: of the enroll_in_course requests of one principal for one course,
\* whatever their order, the one that finds no row answers 201 and adds the
\* row, with the principal's id as user_id, and every other one answers 409
\* (never 500); no (user_id, course_id) pair ever has two rows.
C12_EnrollOnce ==
    /\ [](\A e, f \in enrollments :
            (e.user_id = f.user_id /\ e.course_id = f.course_id) => e = f)
    /\ [](Authenticated("enroll_in_course") => last.status \in {201, 409})
    /\ [][(last'.op = "enroll_in_course" /\ last'.auth.ok) =>
            LET user_id == last'.auth.user.id
                course_id == last'.args.course_id
            IN  IF EnrollmentsOf(enrollments, user_id, course_id) # {}
                THEN /\ last'.status = 409
                     /\ enrollments' = enrollments
                ELSE /\ last'.status = 201
                     /\ enrollments \subseteq enrollments'
                     /\ Cardinality(enrollments') = Cardinality(enrollments) + 1
                     /\ \A e \in enrollments' \ enrollments :
                            e.user_id = user_id /\ e.course_id = course_id]_vars

\* C12 witness: a principal's second request for a course, at a later time and
\* with another principal enrolled too, got 409 and the one row stayed.
C12_Witness ==
    /\ Authenticated("enroll_in_course")
    /\ last.status = 409
    /\ \E e \in EnrollmentsOf(enrollments, Principal.id, last.args.course_id) :
            e.enrollment_date < last.at
    /\ \E e \in enrollments : e.user_id # Principal.id

\* C13: a permitted update_course_by_id binds, for each field the request
\* leaves out, the value the stored row has, so its UPDATE leaves that field as
\* it was; the UPDATE never changes instructor_id or created_at.
C13_AbsentFieldsKept ==
    /\ []((Authenticated("update_course_by_id") /\ last.status = 0) =>
            \E call \in pending :
                /\ call.course_id = last.args.course_id
                /\ last.args.title = None => call.title = last.course_row.title
                /\ last.args.description = None => call.description = last.course_row.description)
    /\ [][(last'.op = "update_course_by_id_update" /\ last'.status = 200) =>
            LET old == TheRow(CourseById(last'.args.course_id))
                new == TheRow({c \in courses' : c.id = last'.args.course_id})
            IN  /\ new.instructor_id = old.instructor_id
                /\ new.created_at = old.created_at
                /\ last'.args.description = None => new.description = old.description]_vars

\* C14: a course row disappears only in a delete_course_by_id step whose
\* principal is the row's instructor_id or has role Admin; a delete by any
\* other principal removes nothing; no step changes the instructor_id of a
\* course, and a created course has its creator as instructor_id.
C14_OwnerOrAdminRemoves ==
    /\ [][\A c \in courses \ courses' :
            \/ /\ last'.op = "delete_course_by_id"
               /\ last'.auth.ok
               /\ last'.status = 204
               /\ c.id = last'.args.course_id
               /\ c.instructor_id = last'.auth.user.id \/ last'.auth.user.role = "Admin"
            \/ /\ last'.op = "update_course_by_id_update"
               /\ \E d \in courses' \ courses :
                      d.id = c.id /\ d.instructor_id = c.instructor_id]_vars
    /\ [][(last'.op = "delete_course_by_id" /\ last'.auth.ok) =>
            \A c \in courses :
                (c.instructor_id # last'.auth.user.id /\ last'.auth.user.role # "Admin")
                    => c \in courses']_vars
    /\ [][\A c \in courses, d \in courses' :
            c.id = d.id => d.instructor_id = c.instructor_id]_vars
    /\ [][\A d \in courses' : (\A c \in courses : c.id # d.id) =>
            /\ last'.op = "create_course"
            /\ last'.auth.ok
            /\ d.instructor_id = last'.auth.user.id]_vars

\* C14 witness: a delete by an Instructor who is not the owner of an existing,
\* already updated course was answered 404 and the course is still there.
C14_Witness ==
    /\ Authenticated("delete_course_by_id")
    /\ last.status = 404
    /\ last.course_row \in courses
    /\ last.course_row.title = "t2"
    /\ last.course_row.instructor_id # Principal.id
    /\ Principal.role = "Instructor"

====
